---- MODULE Spec2Model ----
(***************************************************************************)
(* A model of minato's cache resolution engine (src/minato/minato.py):     *)
(* Minato.cached_path and Minato.remove run by several callers against one *)
(* store.  The metadata store (minato.cache.Cache), the transport          *)
(* (minato.filesystems.download) and the archive helpers (minato.util) are *)
(* collaborators of which only the calls are in the sources; they are      *)
(* modelled at their interface.                                            *)
(***************************************************************************)
EXTENDS Integers, Sequences, FiniteSets, TLC

\* ------------------------------------------------------------------ bounds
NumCallers == 2      \* concurrent callers sharing the store
MaxOps == 2          \* operations started in one concurrent behaviour
MaxSeqCalls == 2     \* operations of the single caller of the sequential runs
MaxNestedOps == 2    \* operations of the callers of nested identifiers together
MaxOpenCalls == 1    \* open calls of the single caller that opens
MaxFairOps == 2      \* operations started in one behaviour under the fair schedule
MaxTime == 1         \* days the clock may advance
MaxExpire == 1       \* largest configured expiration window, in days

Procs == 1..NumCallers

\* ------------------------------------------------------- identifiers, paths
\* Three base references: a remote archive, a remote plain file and an
\* existing local plain file.  An identifier is a base followed by the inner
\* paths that the '!' syntax appends, each the sequence of its components (an
\* empty component is what a leading separator leaves):
\* <<"a.zip", <<"d">>, <<"f">>>> is "a.zip!d!f", <<"a.zip", <<"", "f">>>> is
\* "a.zip!/f" and <<"a.zip", <<"d", "f">>>> is "a.zip!d/f".
RemoteArchive == "a.zip"
RemotePlain == "b.txt"
LocalPlain == "l.txt"
Urls == {RemoteArchive, RemotePlain, LocalPlain}

\* The content of the archive: a file f, a directory d and a file d/f.
ArchiveDirs == {<<"d">>}
ArchiveFiles == {<<"f">>, <<"d", "f">>}

NoExpiry == -1
None == 0

\* is_local(url_or_filename) of minato.util: an existing local path.
is_local(u) == u = LocalPlain

\* What the bytes behind a reference are: an archive or not.
ArchiveKind(u) == u = RemoteArchive

NoPath == [kind |-> "none", url |-> "", inner |-> <<>>]
SourcePath(u) == [kind |-> "src", url |-> u, inner |-> <<>>]
\* CachedFile.local_path: a function of the url alone.
local_path(u) == [kind |-> "art", url |-> u, inner |-> <<>>]
\* Path(str(cached_file.local_path) + "-extracted")
extraction_dir(u) == [kind |-> "ext", url |-> u, inner |-> <<>>]

\* extract_path(file_path) of minato.util on an inner path: the leading
\* separators go; a path with a parent-traversal component is rejected.
RECURSIVE extract_path(_)
extract_path(s) ==
  IF s # <<>> /\ Head(s) = "" THEN extract_path(Tail(s)) ELSE s

Escapes(s) == \E k \in 1..Len(s) : s[k] = ".."

\* the join that keeps the components as they are
Joined_Raw(path, s, raw) == [path EXCEPT !.inner = @ \o raw]

\* archive_path / file_path (line 77): a path that starts with a separator
\* replaces the directory, any other is appended to it.  raw is the inner
\* path as the identifier gives it, s what extract_path made of it.
Joined(path, s, raw) ==
  IF s # <<>> /\ Head(s) = ""
  THEN [kind |-> "abs", url |-> "", inner |-> s]
  ELSE [path EXCEPT !.inner = @ \o s]

NoRec == [id |-> 0, extp |-> FALSE, upd |-> 0]

\* no store remembered
NoSnap == <<>>

\* the mode of a call that is not made by open; a mode is the set of its
\* characters
NoMode == {}

Idle == [pc |-> "idle", op |-> "none", id |-> <<>>, todo |-> <<>>, x |-> FALSE,
         fd |-> FALSE, fe |-> FALSE, shortcut |-> FALSE, url |-> "", key |-> 0,
         cf |-> NoRec, downloaded |-> FALSE, extracted |-> FALSE, ndl |-> 0,
         nex |-> 0, nupd |-> 0, hadExt |-> FALSE, hadFile |-> FALSE,
         sawExpired |-> FALSE, err |-> "none", res |-> NoPath, snap |-> NoSnap,
         mode |-> NoMode, uc |-> TRUE]

VARIABLES
  records,     \* metadata store: url -> persisted row (id = 0: no row)
  file,        \* artifact file at local_path(url): absent, partial, complete
  ext,         \* extraction directory of url: absent, partial, fresh, stale, mixed
  lock,        \* holder of the store's lock, None when free
  nextId,      \* next id the store assigns
  now,         \* the clock, in days
  expireDays,  \* Config.expire_days: NoExpiry or a number of days
  c,           \* each caller's running call: position, arguments, locals
  prev,        \* each caller's previous finished call (kept in sequential runs)
  budget       \* operations that may still be started

vars == <<records, file, ext, lock, nextId, now, expireDays, c, prev, budget>>
store == <<records, file, ext>>

\* ---------------------------------------------------------------- the disk
\* Path.exists()
Exists(p) ==
  CASE p.kind = "src" -> TRUE
    [] p.kind = "art" -> file[p.url] # "absent"
    [] p.kind = "ext" ->
         IF p.inner = <<>> THEN ext[p.url] # "absent"
         ELSE ext[p.url] \in {"fresh", "stale", "mixed"}
              /\ p.inner \in (ArchiveDirs \cup ArchiveFiles)
    [] OTHER -> FALSE

\* a test that takes anything for a directory
IsDir_Always(p) == TRUE

\* Path.is_dir()
IsDir(p) ==
  /\ p.kind = "ext"
  /\ IF p.inner = <<>> THEN ext[p.url] # "absent"
     ELSE ext[p.url] \in {"fresh", "stale", "mixed"} /\ p.inner \in ArchiveDirs

\* is_archive_file(path): decided by the file's signature, so by a file that
\* is fully there.
is_archive_file(u) == ArchiveKind(u) /\ file[u] = "complete"

\* remove_file_or_directory on the artifact file / on the extraction directory
RemovedFile(u) == [file EXCEPT ![u] = "absent"]
RemovedDir(u) == [ext EXCEPT ![u] = "absent"]

\* ------------------------------------------------------- the metadata store
\* url in cache
Contains(u) == records[u].id # 0

\* Cache.is_expired(cached_file)
is_expired(cf) == expireDays # NoExpiry /\ now - cf.upd >= expireDays

\* Cache.add(url): a new row, no extraction_path
Added(u) == [records EXCEPT ![u] = [id |-> nextId, extp |-> FALSE, upd |-> now]]

\* Cache.update(cached_file): the row of that id gets the record's fields and
\* a new updated_at
Updated(u, cf) ==
  IF records[u].id = cf.id /\ cf.id # 0
  THEN [records EXCEPT ![u] = [id |-> cf.id, extp |-> cf.extp, upd |-> now]]
  ELSE records

\* Cache.delete(cached_file): the row of that id goes
Deleted(u, cf) ==
  IF records[u].id = cf.id THEN [records EXCEPT ![u] = NoRec] ELSE records

\* Cache.by_id(id): the url of the row, "" when there is none
UrlOfId(n) == IF \E u \in Urls : records[u].id = n /\ n # 0
              THEN CHOOSE u \in Urls : records[u].id = n ELSE ""

\* --------------------------------------------------------------- the calls
Free(p) == c[p].pc \in {"idle", "returned", "raised"}

Goto(p, pc) == c' = [c EXCEPT ![p].pc = pc]

\* The except clause's view of the failure: the handler is entered with the
\* error that was raised.
Fail(p, e) == c' = [c EXCEPT ![p].pc = "rollback", ![p].err = e]

\* What is remembered of a finished call: its arguments, how it ended, what
\* it returned and how often it downloaded and extracted.
Summary(f) ==
  [Idle EXCEPT !.pc = f.pc, !.op = f.op, !.id = f.id, !.url = f.url, !.x = f.x,
               !.fd = f.fd, !.fe = f.fe, !.err = f.err, !.res = f.res,
               !.ndl = f.ndl, !.nex = f.nex, !.shortcut = f.shortcut,
               !.key = f.key]

\* Where a cached_path call that returns a path goes: back to the user, or
\* on to line 51 when open made the call.
Done(mode) == IF mode = NoMode THEN "returned" ELSE "open_file"

\* the test of lines 80-82 never taken
Shortcut_Never(base, xe) == FALSE

\* lines 80-83: a local path that is no archive, without extract, is returned
\* as it is
Shortcut(base, xe) == is_local(base) /\ ~xe /\ ~ArchiveKind(base)

\* cached_path(url_or_filename, extract, force_download, force_extract), lines
\* 54-83: the '!' recursion goes down to the base reference with extract=True
\* and the same force flags; a local plain file without extract is returned
\* as it is.
CallFrame(i, x, fd, fe, keep, mode) ==
  LET base == Head(i)
      xe == IF Len(i) > 1 THEN TRUE ELSE x
      short == Shortcut(base, xe)
  IN [Idle EXCEPT !.pc = IF short THEN Done(mode) ELSE "acquire",
                  !.op = IF mode = NoMode THEN "cached_path" ELSE "open",
                  !.id = i, !.todo = Tail(i),
                  !.x = xe, !.fd = fd, !.fe = fe, !.url = base,
                  !.shortcut = short,
                  !.res = IF short THEN SourcePath(base) ELSE NoPath,
                  !.snap = IF keep THEN store ELSE NoSnap,
                  !.mode = mode]

Call(p, i, x, fd, fe, keep) ==
  /\ Free(p) /\ budget > 0
  /\ c' = [c EXCEPT ![p] = CallFrame(i, x, fd, fe, keep, NoMode)]
  /\ prev' = [prev EXCEPT ![p] = IF keep THEN Summary(c[p]) ELSE Idle]
  /\ budget' = budget - 1
  /\ UNCHANGED <<records, file, ext, lock, nextId, now, expireDays>>

\* with self._cache: (line 85) the store's lock is taken
Acquire(p) ==
  /\ c[p].pc = "acquire" /\ lock = None
  /\ lock' = p
  /\ Goto(p, "lookup")
  /\ UNCHANGED <<records, file, ext, nextId, now, expireDays, prev, budget>>

\* lines 86-90: the record of the url, created when there is none
Lookup(p) ==
  /\ c[p].pc = "lookup"
  /\ LET u == c[p].url IN
     IF Contains(u)
     THEN /\ c' = [c EXCEPT ![p].pc = "check_download", ![p].cf = records[u]]
          /\ UNCHANGED <<records, nextId>>
     ELSE /\ records' = Added(u)
          /\ nextId' = nextId + 1
          /\ c' = [c EXCEPT ![p].pc = "check_download", ![p].cf = Added(u)[u]]
  /\ UNCHANGED <<file, ext, lock, now, expireDays, prev, budget>>

\* the condition with the test of the file turned around
MustDownload_Inverted(p) ==
  \/ Exists(local_path(c[p].url))
  \/ is_expired(c[p].cf)
  \/ c[p].fd

\* the condition without force_download
MustDownload_NoForce(p) ==
  \/ ~Exists(local_path(c[p].url))
  \/ is_expired(c[p].cf)

\* lines 94-98: whether to download
MustDownload(p) ==
  \/ ~Exists(local_path(c[p].url))
  \/ is_expired(c[p].cf)
  \/ c[p].fd

CheckDownload(p) ==
  /\ c[p].pc = "check_download"
  /\ c' = [c EXCEPT ![p].pc = IF MustDownload(p) THEN "download" ELSE "check_extract",
                    ![p].sawExpired = is_expired(c[p].cf),
                    ![p].hadFile = Exists(local_path(c[p].url))]
  /\ UNCHANGED <<records, file, ext, lock, nextId, now, expireDays, prev, budget>>

\* line 99, self.download(url, local_path): the transport starts to write the
\* file; an extraction of the earlier content is no longer one of this file
DownloadStart(p) ==
  /\ c[p].pc = "download"
  /\ LET u == c[p].url IN
     /\ file' = [file EXCEPT ![u] = "partial"]
     /\ ext' = [ext EXCEPT ![u] = IF @ = "fresh" THEN "stale" ELSE @]
  /\ c' = [c EXCEPT ![p].pc = "downloading", ![p].ndl = @ + 1]
  /\ UNCHANGED <<records, lock, nextId, now, expireDays, prev, budget>>

\* line 99: the transport fails before it wrote anything
DownloadRefused(p) ==
  /\ c[p].pc = "download"
  /\ c' = [c EXCEPT ![p].pc = "rollback", ![p].err = "TransportError",
                    ![p].ndl = @ + 1]
  /\ UNCHANGED <<records, file, ext, lock, nextId, now, expireDays, prev, budget>>

\* lines 99-100: the download completes
DownloadOk(p) ==
  /\ c[p].pc = "downloading"
  /\ file' = [file EXCEPT ![c[p].url] = "complete"]
  /\ c' = [c EXCEPT ![p].pc = "check_extract", ![p].downloaded = TRUE]
  /\ UNCHANGED <<records, ext, lock, nextId, now, expireDays, prev, budget>>

\* line 99: the transport fails midway, what it wrote stays
DownloadFail(p) ==
  /\ c[p].pc = "downloading"
  /\ Fail(p, "TransportError")
  /\ UNCHANGED <<records, file, ext, lock, nextId, now, expireDays, prev, budget>>

\* the condition without the test that nothing was extracted before
MustExtract_Always(p) ==
  /\ \/ c[p].x
     \/ c[p].downloaded /\ c[p].cf.extp
     \/ c[p].fe
  /\ is_archive_file(c[p].url)

\* lines 103-107: whether to extract
MustExtract(p) ==
  /\ \/ c[p].x /\ ~c[p].cf.extp
     \/ c[p].downloaded /\ c[p].cf.extp
     \/ c[p].fe
  /\ is_archive_file(c[p].url)

\* the earlier extraction directory left in place
ClearedDir_Kept(u) == ext

\* lines 111-112: the directory of an earlier extraction is removed
ClearedDir(u) == RemovedDir(u)

\* lines 102-112: the decision, the record's extraction_path and the removal
\* of an earlier extraction directory
CheckExtract(p) ==
  /\ c[p].pc = "check_extract"
  /\ IF MustExtract(p)
     THEN /\ c' = [c EXCEPT ![p].pc = "extract", ![p].cf.extp = TRUE,
                            ![p].hadExt = Exists(extraction_dir(c[p].url))]
          /\ ext' = ClearedDir(c[p].url)
     ELSE /\ c' = [c EXCEPT ![p].pc = "update",
                            ![p].hadExt = Exists(extraction_dir(c[p].url))]
          /\ UNCHANGED ext
  /\ UNCHANGED <<records, file, lock, nextId, now, expireDays, prev, budget>>

\* line 113, extract_archive_file(local_path, extraction_path): the directory
\* is made; what an earlier extraction left in it stays in it
ExtractStart(p) ==
  /\ c[p].pc = "extract"
  /\ ext' = [ext EXCEPT ![c[p].url] = IF @ = "absent" THEN "partial" ELSE "mixed"]
  /\ c' = [c EXCEPT ![p].pc = "extracting", ![p].nex = @ + 1]
  /\ UNCHANGED <<records, file, lock, nextId, now, expireDays, prev, budget>>

\* lines 113-116: the extraction completes (the archive is there to read)
ExtractOk(p) ==
  /\ c[p].pc = "extracting"
  /\ file[c[p].url] = "complete"
  /\ ext' = [ext EXCEPT ![c[p].url] = IF @ = "mixed" THEN "mixed" ELSE "fresh"]
  /\ c' = [c EXCEPT ![p].pc = "update", ![p].extracted = TRUE]
  /\ UNCHANGED <<records, file, lock, nextId, now, expireDays, prev, budget>>

\* line 113: the extraction fails, what it wrote stays
ExtractFail(p) ==
  /\ c[p].pc = "extracting"
  /\ Fail(p, "ExtractionError")
  /\ UNCHANGED <<records, file, ext, lock, nextId, now, expireDays, prev, budget>>

\* update called whether or not anything was downloaded or extracted
Update_Always(p) ==
  /\ c[p].pc = "update"
  /\ records' = Updated(c[p].url, c[p].cf)
  /\ c' = [c EXCEPT ![p].pc = "return", ![p].nupd = @ + 1]
  /\ UNCHANGED <<file, ext, lock, nextId, now, expireDays, prev, budget>>

\* lines 118-119
Update(p) ==
  /\ c[p].pc = "update"
  /\ IF c[p].downloaded \/ c[p].extracted
     THEN /\ records' = Updated(c[p].url, c[p].cf)
          /\ c' = [c EXCEPT ![p].pc = "return", ![p].nupd = @ + 1]
     ELSE /\ Goto(p, "return")
          /\ UNCHANGED records
  /\ UNCHANGED <<file, ext, lock, nextId, now, expireDays, prev, budget>>

\* lines 121-122 and 129: the path the pipeline returns
Returned(p) ==
  IF (c[p].x \/ c[p].fe) /\ c[p].cf.extp
  THEN extraction_dir(c[p].url)
  ELSE local_path(c[p].url)

\* the pipeline returns and the lock stays with the caller
Return_KeepsLock(p) ==
  /\ c[p].pc = "return"
  /\ c' = [c EXCEPT ![p].pc = IF c[p].todo = <<>> THEN Done(c[p].mode)
                                ELSE "unwind",
                    ![p].res = Returned(p)]
  /\ UNCHANGED <<records, file, ext, lock, nextId, now, expireDays, prev, budget>>

\* lines 121-129 with the end of the with block: the lock is released and the
\* pipeline returns to its caller, which is the user or the '!' level above
Return(p) ==
  /\ c[p].pc = "return"
  /\ lock' = IF lock = p THEN None ELSE lock
  /\ c' = [c EXCEPT ![p].pc = IF c[p].todo = <<>> THEN Done(c[p].mode)
                                ELSE "unwind",
                    ![p].res = Returned(p)]
  /\ UNCHANGED <<records, file, ext, nextId, now, expireDays, prev, budget>>

\* lines 71-78: one level of the '!' syntax, after the level below returned
Unwind(p) ==
  /\ c[p].pc = "unwind"
  /\ IF ~IsDir(c[p].res)
     THEN c' = [c EXCEPT ![p].pc = "raised", ![p].err = "ValueError",
                         ![p].res = NoPath]
     ELSE IF Escapes(Head(c[p].todo))
     THEN c' = [c EXCEPT ![p].pc = "raised", ![p].err = "InvalidPath",
                         ![p].res = NoPath]
     ELSE c' = [c EXCEPT ![p].pc = IF Len(c[p].todo) = 1 THEN Done(c[p].mode)
                                   ELSE "unwind",
                         ![p].res = Joined(c[p].res, extract_path(Head(c[p].todo)),
                                           Head(c[p].todo)),
                         ![p].todo = Tail(@)]
  /\ UNCHANGED <<records, file, ext, lock, nextId, now, expireDays, prev, budget>>

\* the handler leaving the artifact file in place
RolledBackFile_Kept(p) == file

\* the extraction directory left where it is
RolledBackDir_Kept(p) == ext

\* lines 124-126: the files the handler removes
RolledBackFile(p) == RemovedFile(c[p].url)
RolledBackDir(p) == IF c[p].cf.extp THEN RemovedDir(c[p].url) ELSE ext

\* lines 123-127: the except clause
Rollback(p) ==
  /\ c[p].pc = "rollback"
  /\ file' = RolledBackFile(p)
  /\ ext' = RolledBackDir(p)
  /\ Goto(p, "exit_error")
  /\ UNCHANGED <<records, lock, nextId, now, expireDays, prev, budget>>

\* the error goes up and the lock stays with the caller
ExitError_KeepsLock(p) ==
  /\ c[p].pc = "exit_error"
  /\ c' = [c EXCEPT ![p].pc = "raised", ![p].res = NoPath]
  /\ UNCHANGED <<records, file, ext, lock, nextId, now, expireDays, prev, budget>>

\* line 127 with the end of the with block: the lock is released and the
\* error goes up to the user (no level of the '!' syntax catches it)
ExitError(p) ==
  /\ c[p].pc = "exit_error"
  /\ lock' = IF lock = p THEN None ELSE lock
  /\ c' = [c EXCEPT ![p].pc = "raised", ![p].res = NoPath]
  /\ UNCHANGED <<records, file, ext, nextId, now, expireDays, prev, budget>>

\* KeyboardInterrupt or SystemExit inside the try block (lines 92-122)
InTry(p) == c[p].pc \in {"check_download", "download", "downloading",
                         "check_extract", "extract", "extracting", "update",
                         "return"}

Interrupt(p) ==
  /\ InTry(p)
  /\ Fail(p, "Interrupt")
  /\ UNCHANGED <<records, file, ext, lock, nextId, now, expireDays, prev, budget>>

\* KeyboardInterrupt inside the with block before the try block (lines 86-90)
InterruptLookup(p) ==
  /\ c[p].pc = "lookup"
  /\ c' = [c EXCEPT ![p].pc = "exit_error", ![p].err = "Interrupt"]
  /\ UNCHANGED <<records, file, ext, lock, nextId, now, expireDays, prev, budget>>

\* lines 40-43: open goes through cached_path unless the mode holds all of
\* 'a', 'w', 'x' and '+', or use_cache is off
UsesCache(mode, use_cache) ==
  ~("a" \in mode /\ "w" \in mode /\ "x" \in mode /\ "+" \in mode) /\ use_cache

\* the identifier as open_file gets it when cached_path was not called
Target(i) == [kind |-> "src", url |-> Head(i), inner |-> Tail(i)]

\* open(url_or_filename, mode, extract, use_cache, force_download,
\* force_extract), lines 30-49
OpenCall(p, i, mode, use_cache, x, fd, fe) ==
  /\ Free(p) /\ budget > 0
  /\ c' = [c EXCEPT ![p] =
             IF UsesCache(mode, use_cache)
             THEN [CallFrame(i, x, fd, fe, FALSE, mode) EXCEPT !.uc = use_cache]
             ELSE [Idle EXCEPT !.pc = "open_file", !.op = "open", !.id = i,
                               !.url = Head(i), !.x = x, !.fd = fd, !.fe = fe,
                               !.mode = mode, !.uc = use_cache,
                               !.res = Target(i)]]
  /\ prev' = [prev EXCEPT ![p] = Idle]
  /\ budget' = budget - 1
  /\ UNCHANGED <<records, file, ext, lock, nextId, now, expireDays>>

\* lines 51-52: open_file(url_or_filename, mode); opening for writing
\* empties the file that is opened, an artifact file or a file of the
\* extraction directory when cached_path returned one
OpenFile(p) ==
  /\ c[p].pc = "open_file"
  /\ LET w == "w" \in c[p].mode
         r == c[p].res
     IN /\ file' = IF w /\ r.kind = "art" /\ Exists(r)
                    THEN [file EXCEPT ![r.url] = "partial"] ELSE file
        /\ ext' = IF w /\ r.kind = "ext" /\ r.inner \in ArchiveFiles /\ Exists(r)
                   THEN [ext EXCEPT ![r.url] = "stale"] ELSE ext
  /\ Goto(p, "returned")
  /\ UNCHANGED <<records, lock, nextId, now, expireDays, prev, budget>>

\* remove(id_or_url), lines 142-148: the record by id or by url, NotFound when
\* there is none.  No lock is taken.
RemoveCall(p, byId, k, keep) ==
  /\ Free(p) /\ budget > 0
  /\ LET u == IF byId THEN UrlOfId(k) ELSE k
         found == u \in Urls /\ Contains(u)
     IN c' = [c EXCEPT ![p] =
                [Idle EXCEPT !.pc = IF found THEN "remove_file" ELSE "raised",
                             !.op = "remove", !.key = IF byId THEN k ELSE 0,
                             !.url = IF found \/ ~byId THEN u ELSE "",
                             !.cf = IF found THEN records[u] ELSE NoRec,
                             !.err = IF found THEN "none" ELSE "NotFound",
                             !.snap = IF keep THEN store ELSE NoSnap]]
  /\ prev' = [prev EXCEPT ![p] = IF keep THEN Summary(c[p]) ELSE Idle]
  /\ budget' = budget - 1
  /\ UNCHANGED <<records, file, ext, lock, nextId, now, expireDays>>

\* line 150
RemoveFile(p) ==
  /\ c[p].pc = "remove_file"
  /\ file' = RemovedFile(c[p].url)
  /\ Goto(p, "remove_dir")
  /\ UNCHANGED <<records, ext, lock, nextId, now, expireDays, prev, budget>>

\* the extraction directory left where it is
RemoveDir_Skipped(p) ==
  /\ c[p].pc = "remove_dir"
  /\ Goto(p, "remove_record")
  /\ UNCHANGED <<records, file, ext, lock, nextId, now, expireDays, prev, budget>>

\* lines 151-152
RemoveDir(p) ==
  /\ c[p].pc = "remove_dir"
  /\ ext' = IF c[p].cf.extp THEN RemovedDir(c[p].url) ELSE ext
  /\ Goto(p, "remove_record")
  /\ UNCHANGED <<records, file, lock, nextId, now, expireDays, prev, budget>>

\* line 153
RemoveRecord(p) ==
  /\ c[p].pc = "remove_record"
  /\ records' = Deleted(c[p].url, c[p].cf)
  /\ Goto(p, "returned")
  /\ UNCHANGED <<file, ext, lock, nextId, now, expireDays, prev, budget>>

\* a day passes
Tick ==
  /\ now < MaxTime
  /\ now' = now + 1
  /\ UNCHANGED <<records, file, ext, lock, nextId, expireDays, c, prev, budget>>

\* ------------------------------------------------------- the specifications
ExpireChoices == {NoExpiry} \cup 0..MaxExpire

\* What an earlier run of the program can have left in the durable store:
\* nothing, the archive downloaded, or the archive downloaded and extracted.
EmptyStore ==
  /\ records = [u \in Urls |-> NoRec]
  /\ file = [u \in Urls |-> "absent"]
  /\ ext = [u \in Urls |-> "absent"]
  /\ nextId = 1

CachedStore(extracted) ==
  /\ records = [u \in Urls |-> IF u = RemoteArchive
                                THEN [id |-> 1, extp |-> extracted, upd |-> 0]
                                ELSE NoRec]
  /\ file = [u \in Urls |-> IF u = RemoteArchive THEN "complete" ELSE "absent"]
  /\ ext = [u \in Urls |-> IF u = RemoteArchive /\ extracted THEN "fresh" ELSE "absent"]
  /\ nextId = 2

InitCallers ==
  /\ lock = None
  /\ now = 0
  /\ c = [p \in Procs |-> Idle]
  /\ prev = [p \in Procs |-> Idle]

\* The steps of a cached_path call that is under way
StepCall(p) ==
  \/ Acquire(p) \/ Lookup(p) \/ CheckDownload(p)
  \/ DownloadStart(p) \/ DownloadRefused(p) \/ DownloadOk(p) \/ DownloadFail(p)
  \/ CheckExtract(p) \/ ExtractStart(p) \/ ExtractOk(p) \/ ExtractFail(p)
  \/ Update(p) \/ Return(p) \/ Unwind(p)
  \/ Rollback(p) \/ ExitError(p) \/ Interrupt(p) \/ InterruptLookup(p)

\* The steps of a call that is under way
Step(p) ==
  \/ StepCall(p)
  \/ RemoveFile(p) \/ RemoveDir(p) \/ RemoveRecord(p)

\* Concurrent callers: any operations, any interleaving.
ConcIdents == {<<RemoteArchive>>, <<RemoteArchive, <<"f">>>>,
               <<RemoteArchive, <<"x">>>>, <<LocalPlain>>}

Init ==
  /\ EmptyStore \/ CachedStore(FALSE) \/ CachedStore(TRUE)
  /\ InitCallers
  /\ expireDays \in {NoExpiry, 0}
  /\ budget = MaxOps

StartAny(p) ==
  \/ \E i \in ConcIdents, x, fd, fe \in BOOLEAN : Call(p, i, x, fd, fe, FALSE)
  \/ \E u \in {RemoteArchive} : RemoveCall(p, FALSE, u, FALSE)
  \/ \E k \in 1..2 : RemoveCall(p, TRUE, k, FALSE)

Next == \E p \in Procs : StartAny(p) \/ Step(p)

Spec == Init /\ [][Next]_vars

\* One caller, one operation after the other, each remembered while the next
\* one runs.
SeqIdents == {<<RemoteArchive>>, <<RemotePlain>>, <<LocalPlain>>,
              <<RemoteArchive, <<"f">>>>}

InitSeq ==
  /\ EmptyStore \/ CachedStore(FALSE) \/ CachedStore(TRUE)
  /\ InitCallers
  /\ expireDays \in ExpireChoices
  /\ budget = MaxSeqCalls

StartSeq(p) ==
  \/ \E i \in SeqIdents, x, fd, fe \in BOOLEAN : Call(p, i, x, fd, fe, TRUE)
  \/ \E u \in {RemoteArchive, RemotePlain} : RemoveCall(p, FALSE, u, TRUE)
  \/ RemoveCall(p, TRUE, 1, TRUE)

\* a day passes between two operations
TickBetween == Free(1) /\ Tick

NextSeq == StartSeq(1) \/ Step(1) \/ TickBetween

SpecSeq == InitSeq /\ [][NextSeq]_vars

\* Every caller resolves the same url once, without force flags; no download
\* and no extraction fails and nobody is interrupted.
InitSame ==
  /\ EmptyStore
  /\ InitCallers
  /\ expireDays \in ExpireChoices
  /\ budget = NumCallers

CallSame(p) ==
  /\ c[p].pc = "idle"
  /\ \E x \in BOOLEAN : Call(p, <<RemoteArchive>>, x, FALSE, FALSE, FALSE)

StepOk(p) ==
  \/ Acquire(p) \/ Lookup(p) \/ CheckDownload(p)
  \/ DownloadStart(p) \/ DownloadOk(p)
  \/ CheckExtract(p) \/ ExtractStart(p) \/ ExtractOk(p)
  \/ Update(p) \/ Return(p)

NextSame == (\E p \in Procs : CallSame(p) \/ StepOk(p)) \/ Tick

SpecSame == InitSame /\ [][NextSame]_vars

\* Concurrent callers of nested identifiers: the inner path names a file or a
\* directory, begins with a separator or climbs out of the
\* directory, and the outer part is an archive, a plain file or itself a
\* nested reference to a file.  The store has no expiration window here.
NestedIdents ==
  {<<RemoteArchive, <<"f">>>>, <<RemoteArchive, <<"", "f">>>>,
   <<RemoteArchive, <<"..", "f">>>>, <<RemoteArchive, <<"d">>, <<"f">>>>,
   <<RemoteArchive, <<"f">>, <<"f">>>>, <<RemotePlain, <<"f">>>>}

InitNested ==
  /\ EmptyStore \/ CachedStore(TRUE)
  /\ InitCallers
  /\ expireDays = NoExpiry
  /\ budget = MaxNestedOps

StartNested(p) ==
  \E i \in NestedIdents, fd, fe \in BOOLEAN : Call(p, i, FALSE, fd, fe, FALSE)

NextNested == \E p \in Procs : StartNested(p) \/ StepCall(p)

SpecNested == InitNested /\ [][NextNested]_vars

\* Concurrent callers under a fair schedule: a caller that can take a step of
\* its call takes one in the end (a download or an extraction that was begun
\* ends, well or badly), and a caller that finds the lock free again and
\* again gets it in the end.
FairIdents == {<<RemoteArchive>>, <<RemoteArchive, <<"f">>>>}

InitFair ==
  /\ EmptyStore \/ CachedStore(TRUE)
  /\ InitCallers
  /\ expireDays = NoExpiry
  /\ budget = MaxFairOps

StartFair(p) ==
  \E i \in FairIdents, x, fd, fe \in BOOLEAN : Call(p, i, x, fd, fe, FALSE)

NextFair == \E p \in Procs : StartFair(p) \/ StepCall(p)

Fairness == \A p \in Procs : WF_vars(StepCall(p)) /\ SF_vars(Acquire(p))

SpecFair == InitFair /\ [][NextFair]_vars /\ Fairness

\* One caller opens an identifier, in any mode, with and without use_cache.
Modes == {{"r"}, {"r", "b"}, {"w"}, {"a"}, {"x"}, {"w", "+"}}

OpenIdents == {<<RemoteArchive>>, <<RemoteArchive, <<"f">>>>, <<LocalPlain>>}

InitOpen ==
  /\ EmptyStore \/ CachedStore(FALSE) \/ CachedStore(TRUE)
  /\ InitCallers
  /\ expireDays = NoExpiry
  /\ budget = MaxOpenCalls

StartOpen(p) ==
  \E i \in OpenIdents, mode \in Modes, use_cache, x, fd, fe \in BOOLEAN :
    OpenCall(p, i, mode, use_cache, x, fd, fe)

NextOpen == StartOpen(1) \/ StepCall(1) \/ OpenFile(1)

SpecOpen == InitOpen /\ [][NextOpen]_vars

\* ------------------------------------------------------------------ claims
\* The step in which caller p's cached_path hands a path back to the user.
ReturnsNow(p) ==
  c'[p] # c[p] /\ c'[p].op = "cached_path" /\ c'[p].pc = "returned"

\* The step in which caller p's cached_path hands an error back to the user.
RaisesNow(p) ==
  c'[p] # c[p] /\ c'[p].op = "cached_path" /\ c'[p].pc = "raised"

\* The downloads of all callers' calls together.
RECURSIVE DownloadsOf(_)
DownloadsOf(S) ==
  IF S = {} THEN 0
  ELSE LET p == CHOOSE q \in S : TRUE IN c[p].ndl + DownloadsOf(S \ {p})

AllReturned == \A p \in Procs : c[p].op = "cached_path" /\ c[p].pc = "returned"

\* Callers that passed the same extract flag got the same path.
SamePaths == \A p, q \in Procs : c[p].x = c[q].x => c[p].res = c[q].res

\* C1 as stated: once every caller of the same url has returned, one download
\* was performed in all and the callers hold the same path.
C1_OneDownload == AllReturned => DownloadsOf(Procs) = 1 /\ SamePaths

\* C1 as amended: the same, provided no caller found the record expired.
C1_OneDownloadUnlessExpired ==
  (AllReturned /\ \A p \in Procs : ~c[p].sawExpired)
    => DownloadsOf(Procs) = 1 /\ SamePaths

\* All callers are back, none saw an expired record although a window is set,
\* and one of them downloaded.
C1_Witness ==
  /\ AllReturned /\ \A p \in Procs : ~c[p].sawExpired
  /\ expireDays = 1 /\ DownloadsOf(Procs) = 1
  /\ \E p \in Procs : c[p].ndl = 0

\* C2: every step that changes an artifact file, an extraction directory or a
\* metadata record is taken by the caller that holds the store's lock.
C2_MutationUnderLock ==
  [][store' # store => \E p \in Procs : lock = p /\ c'[p] # c[p]]_vars

\* C3: whenever cached_path returns, the path it returns exists on the disk at
\* that moment.
C3_ReturnedPathExists ==
  [][\A p \in Procs : ReturnsNow(p) => Exists(c[p].res)']_vars

\* C4: in every state, the local_path of every persisted record exists on the
\* disk, and so does its persisted extraction_path when it has one.
C4_PersistedPathsExist ==
  \A u \in Urls :
    Contains(u) =>
      /\ Exists(local_path(u))
      /\ records[u].extp => Exists(extraction_dir(u))

\* C5: when cached_path gives control back after its download failed, no
\* artifact file is at the url's local_path and the error is the transport's.
C5_FailedDownloadLeavesNoFile ==
  [][\A p \in Procs :
       (RaisesNow(p) /\ c[p].ndl > 0 /\ ~c[p].downloaded /\ c[p].err # "Interrupt")
         => /\ file'[c[p].url] = "absent"
            /\ c'[p].err = "TransportError"]_vars

\* A caller whose forced re-download of a cached artifact failed has got the
\* transport's error, and the artifact file is gone.
C5_Witness ==
  \E p \in Procs :
    /\ c[p].op = "cached_path" /\ c[p].pc = "raised"
    /\ c[p].err = "TransportError" /\ c[p].fd /\ c[p].ndl = 1
    /\ Contains(c[p].url) /\ file[c[p].url] = "absent"

\* The inner paths of an identifier, normalised and joined.
RECURSIVE InnerOf(_)
InnerOf(segs) ==
  IF segs = <<>> THEN <<>> ELSE extract_path(Head(segs)) \o InnerOf(Tail(segs))

\* What a call does on a store that never held its identifier: unless it is
\* the call on a local plain file that returns that file, it downloads,
\* extracts an archive when extract or force_extract is set, and returns the
\* extraction directory in that case and the artifact file otherwise.
FreshDownloads(f) == IF f.shortcut THEN 0 ELSE 1
FreshExtractions(f) ==
  IF ~f.shortcut /\ ArchiveKind(f.url) /\ (f.x \/ f.fe) THEN 1 ELSE 0
FreshPath(f) ==
  IF f.shortcut THEN SourcePath(f.url)
  ELSE [(IF ArchiveKind(f.url) /\ (f.x \/ f.fe)
         THEN extraction_dir(f.url) ELSE local_path(f.url))
        EXCEPT !.inner = InnerOf(Tail(f.id))]

\* C6: the cached_path call that follows a call on the same identifier which
\* failed in its download or its extraction downloads, extracts and returns
\* what a call on a store that never held the identifier would.
C6_RetryLikeNeverDownloaded ==
  \A p \in Procs :
    ( /\ prev[p].op = "cached_path" /\ prev[p].pc = "raised"
      /\ prev[p].err \in {"TransportError", "ExtractionError"}
      /\ c[p].op = "cached_path" /\ c[p].pc = "returned"
      /\ c[p].id = prev[p].id )
    => /\ c[p].ndl = FreshDownloads(c[p])
       /\ c[p].nex = FreshExtractions(c[p])
       /\ c[p].res = FreshPath(c[p])

\* Two cached_path calls of one caller on the same url, one after the other,
\* neither with a force flag, both returned.
TwoCalls(p) ==
  /\ prev[p].op = "cached_path" /\ prev[p].pc = "returned"
  /\ c[p].op = "cached_path" /\ c[p].pc = "returned"
  /\ c[p].id = prev[p].id /\ Len(c[p].id) = 1 /\ ~is_local(c[p].url)
  /\ ~prev[p].fd /\ ~prev[p].fe /\ ~c[p].fd /\ ~c[p].fe

\* C7 as stated: the second of two such calls downloads nothing, so the two
\* download once at most (once, when the first found no artifact).
C7_SecondCallReuses ==
  \A p \in Procs :
    TwoCalls(p) => c[p].ndl = 0 /\ prev[p].ndl + c[p].ndl <= 1

\* C7 as amended: the same, provided the second call does not find the record
\* expired.
C7_SecondCallReusesUnlessExpired ==
  \A p \in Procs :
    (TwoCalls(p) /\ ~c[p].sawExpired)
      => c[p].ndl = 0 /\ prev[p].ndl + c[p].ndl <= 1

\* The first call downloaded the url, the second found the file and a record
\* that is not expired although a window is set.
C7_Witness ==
  /\ TwoCalls(1) /\ c[1].id = <<RemotePlain>>
  /\ prev[1].ndl = 1 /\ c[1].ndl = 0
  /\ expireDays = 1 /\ c[1].hadFile /\ ~c[1].sawExpired

\* A call that went through the pipeline and came back with a path or with an
\* error of the transport, of the extraction or of the '!' syntax.
RanPipeline(p) ==
  /\ c[p].op = "cached_path" /\ ~c[p].shortcut
  /\ \/ c[p].pc = "returned"
     \/ c[p].pc = "raised" /\ c[p].err \in {"TransportError", "ExtractionError", "ValueError"}

\* C8 as stated: a call with force_download that has returned has downloaded.
C8_ForceDownloads ==
  \A p \in Procs :
    (c[p].op = "cached_path" /\ c[p].pc = "returned" /\ c[p].fd) => c[p].ndl >= 1

\* C8 as amended: a call with force_download that went through the pipeline
\* invoked the download once, whatever it found in the store.
C8_ForceDownloadsInPipeline ==
  \A p \in Procs : (RanPipeline(p) /\ c[p].fd) => c[p].ndl = 1

\* A forced call downloaded although the file was there and the record not
\* expired.
C8_Witness ==
  \E p \in Procs :
    /\ RanPipeline(p) /\ c[p].pc = "returned" /\ c[p].fd
    /\ c[p].hadFile /\ ~c[p].sawExpired /\ c[p].ndl = 1

\* C9: a call with force_extract on an archive that had an extraction
\* directory has extracted once, returns the extraction directory, and the
\* directory holds the new extraction only.
C9_ForceExtractReplaces ==
  \A p \in Procs :
    ( /\ c[p].op = "cached_path" /\ c[p].pc = "returned"
      /\ c[p].fe /\ ArchiveKind(c[p].url) /\ c[p].hadExt )
    => /\ c[p].nex = 1
       /\ [c[p].res EXCEPT !.inner = <<>>] = extraction_dir(c[p].url)
       /\ ext[c[p].url] = "fresh"

\* A forced extraction that found a directory, without any download.
C9_Witness ==
  /\ c[1].op = "cached_path" /\ c[1].pc = "returned" /\ c[1].id = <<RemoteArchive>>
  /\ c[1].fe /\ ~c[1].x /\ c[1].hadExt /\ c[1].ndl = 0 /\ c[1].nex = 1
  /\ c[1].res = extraction_dir(RemoteArchive)

\* Two calls as above on an archive url, both with extract.
TwoExtractingCalls(p) ==
  /\ TwoCalls(p) /\ ArchiveKind(c[p].url)
  /\ prev[p].x /\ c[p].x

\* C10 as stated: the second of two such calls extracts nothing, so the two
\* extract once at most, and they return the same directory.
C10_SecondCallKeepsExtraction ==
  \A p \in Procs :
    TwoExtractingCalls(p)
      => /\ c[p].nex = 0 /\ prev[p].nex + c[p].nex <= 1
         /\ c[p].res = prev[p].res /\ c[p].res = extraction_dir(c[p].url)

\* C10 as amended: the same, provided the second call does not find the
\* record expired.
C10_SecondCallKeepsExtractionUnlessExpired ==
  \A p \in Procs :
    (TwoExtractingCalls(p) /\ ~c[p].sawExpired)
      => /\ c[p].nex = 0 /\ prev[p].nex + c[p].nex <= 1
         /\ c[p].res = prev[p].res /\ c[p].res = extraction_dir(c[p].url)

\* The first call extracted, the second returned the directory as it was.
C10_Witness ==
  /\ TwoExtractingCalls(1) /\ ~c[1].sawExpired /\ expireDays = 1
  /\ prev[1].nex = 1 /\ c[1].nex = 0 /\ c[1].res = extraction_dir(RemoteArchive)

\* The call of caller p ended, with a path or with an error.
Finished(p) == c[p].op = "cached_path" /\ c[p].pc \in {"returned", "raised"}

\* The errors with which the pipeline of the base identifier ends.
PipelineErrors == {"TransportError", "ExtractionError", "Interrupt"}

\* The outer part of nested identifier i cannot resolve to a directory: its
\* base is no archive, or an inner path before the last names no directory
\* of the archive.
NotADirectory(i) ==
  \/ ~ArchiveKind(Head(i))
  \/ \E k \in 2..(Len(i) - 1) : InnerOf(SubSeq(i, 2, k)) \notin ArchiveDirs

\* C11: a call on a nested identifier 'outer!inner' whose outer part does not
\* resolve to a directory never returns a path: it ends with an error and no
\* path, and when the resolution of the outer part itself went through, the
\* error is the one of line 72 (ValueError, the code's invalid-reference
\* error).
C11_NestedNeedsDirectory ==
  \A p \in Procs :
    (Finished(p) /\ Len(c[p].id) > 1 /\ NotADirectory(c[p].id))
      => /\ c[p].pc = "raised"
         /\ c[p].res = NoPath
         /\ c[p].err \notin PipelineErrors => c[p].err = "ValueError"

\* One caller was refused 'b.txt!f', whose outer part is a plain file, and
\* another 'a.zip!f!f', whose outer part is a nested reference to a file.
C11_Witness ==
  \E p, q \in Procs :
    /\ Finished(p) /\ c[p].id = <<RemotePlain, <<"f">>>>
    /\ c[p].err = "ValueError" /\ c[p].ndl = 1
    /\ Finished(q) /\ c[q].id = <<RemoteArchive, <<"f">>, <<"f">>>>
    /\ c[q].err = "ValueError" /\ c[q].nex = 1

\* The record that remove call f names was in the store when f was called.
FoundIn(recs, f) ==
  IF f.key # 0 THEN \E u \in Urls : recs[u].id = f.key
  ELSE f.url \in Urls /\ recs[f.url].id # 0

\* Two removes name the same record the same way.
SameKey(f, g) ==
  IF f.key # 0 THEN g.key = f.key ELSE g.key = 0 /\ g.url = f.url

\* C12: in sequential use, after remove(idOrUrl) returned, the record is
\* found neither by id nor by url and neither the artifact file nor the
\* extraction directory exists; remove fails exactly when the record was not
\* in the store, also when the file or the directory was already missing;
\* and a second remove of the same id or url ends with NotFound and leaves
\* records and files as they were.
C12_RemoveIsFinal ==
  LET f == c[1]
      g == prev[1]
  IN (f.op = "remove" /\ f.pc \in {"returned", "raised"}) =>
       /\ f.pc = "returned" <=> FoundIn(f.snap[1], f)
       /\ f.pc = "returned" =>
            /\ ~Contains(f.url) /\ UrlOfId(f.cf.id) = ""
            /\ file[f.url] = "absent" /\ ext[f.url] = "absent"
            /\ \A u \in Urls \ {f.url} :
                 /\ records[u] = f.snap[1][u]
                 /\ file[u] = f.snap[2][u] /\ ext[u] = f.snap[3][u]
       /\ (g.op = "remove" /\ g.pc = "returned" /\ SameKey(g, f)) =>
            /\ f.pc = "raised" /\ f.err = "NotFound"
            /\ store = f.snap

\* A record that was removed by url is removed by url again.
C12_Witness ==
  /\ prev[1].op = "remove" /\ prev[1].pc = "returned"
  /\ prev[1].url = RemoteArchive
  /\ c[1].op = "remove" /\ c[1].pc = "raised" /\ SameKey(prev[1], c[1])

\* A record whose artifact file is missing was removed.
C12_RemovedWithoutFile ==
  /\ c[1].op = "remove" /\ c[1].pc = "returned"
  /\ c[1].snap[2][c[1].url] = "absent"

\* C13: the lock is released on every way out of the critical section (the
\* return of local_path, the return of extraction_path, a failed download or
\* extraction, an interruption): no caller whose call ended holds it, and
\* under the fair schedule every caller that waits for the lock enters the
\* critical section in the end.
C13_WaitingCallerEnters ==
  /\ [](\A p \in Procs : Free(p) => lock # p)
  /\ \A p \in Procs : (c[p].pc = "acquire") ~> (c[p].pc = "lookup")

\* A caller waits for the lock while the holder, interrupted during its
\* extraction, is on its way out with the error.
C13_Witness ==
  \E p, q \in Procs :
    /\ c[p].pc = "acquire"
    /\ lock = q /\ c[q].pc = "exit_error" /\ c[q].err = "Interrupt"
    /\ c[q].nex = 1

\* Nothing half-written lies at the cache paths of url u.
NothingPartial(u) == file[u] # "partial" /\ ext[u] # "partial"

BypassMode(mode) ==
  "a" \in mode \/ "x" \in mode \/ ("w" \in mode /\ "+" \in mode)

\* C15 as stated: an open call in an append, exclusive or 'w+' mode, or with
\* use_cache off, never enters cached_path: it downloads nothing, creates no
\* record, takes no lock and opens the identifier it was given.
C15_OpenBypassesCache ==
  \A p \in Procs :
    (c[p].op = "open" /\ (~c[p].uc \/ BypassMode(c[p].mode)))
      => /\ c[p].pc \in {"open_file", "returned"}
         /\ c[p].res = Target(c[p].id)
         /\ c[p].ndl = 0 /\ lock # p

\* C16 as stated: whenever no caller is inside the critical section (here:
\* no call at all is under way, so that a remove is not caught half-way),
\* every record with an extraction_path has an extraction directory on disk
\* that was produced from the present contents of its artifact file.
C16_ExtractionFollowsArtifact ==
  (lock = None /\ \A p \in Procs : Free(p)) =>
    \A u \in Urls :
      (Contains(u) /\ records[u].extp) => file[u] = "complete" /\ ext[u] = "fresh"

\* Caller p starts a cached_path call on a local path that is no archive,
\* without extract.
CallsLocalPlain(p) ==
  /\ Free(p) /\ c'[p] # c[p] /\ c'[p].op = "cached_path"
  /\ Len(c'[p].id) = 1 /\ is_local(c'[p].url) /\ ~ArchiveKind(c'[p].url)
  /\ ~c'[p].x

\* cached_path on the local plain file, with both force flags
CallLocalForced(p) == Call(p, <<LocalPlain>>, FALSE, TRUE, TRUE, FALSE)

\* C17: cached_path on a local path that is no recognized archive, with
\* extract=false and any force flags, returns that path in the very step of
\* the call: the lock, the records and the cache files stay as they are; and
\* the call can be made whatever the lock's state, also while another caller
\* holds it.
C17_LocalPathUntouched ==
  /\ [][\A p \in Procs :
          CallsLocalPlain(p) =>
            /\ c'[p].pc = "returned"
            /\ c'[p].res = SourcePath(c'[p].url)
            /\ store' = store /\ lock' = lock]_vars
  /\ [](\A p \in Procs : (Free(p) /\ budget > 0) => ENABLED CallLocalForced(p))

\* A call on the local plain file with both force flags has returned, at a
\* moment when another caller is inside the critical section.
C17_Witness ==
  \E p, q \in Procs :
    /\ c[p].op = "cached_path" /\ c[p].id = <<LocalPlain>>
    /\ c[p].pc = "returned" /\ c[p].fd /\ c[p].fe /\ ~c[p].x
    /\ lock = q /\ q # p

\* The updates a run owes: one when it downloaded or extracted, else none.
UpdatesDue(f) == IF f.downloaded \/ f.extracted THEN 1 ELSE 0

\* A run that returned without downloading or extracting left the records
\* and the files as it found them.
CacheHitChangesNothing(f) ==
  (f.pc = "returned" /\ ~f.downloaded /\ ~f.extracted) => store = f.snap

\* C18 as stated: in every run of cached_path, however it ends, update is
\* called once when the run downloaded or extracted and never otherwise, and
\* a cache hit changes no record and no file.
C18_UpdateOncePerRun ==
  LET f == c[1]
  IN (f.op = "cached_path" /\ f.pc \in {"returned", "raised"}) =>
       /\ f.nupd = UpdatesDue(f)
       /\ CacheHitChangesNothing(f)

\* C18, amended: in every run of cached_path whose pipeline ends without a
\* failure or interruption, update is called once when the run downloaded or
\* extracted and never otherwise, and a cache hit changes no record and no
\* file.
C18_UpdateOncePerCompletedRun ==
  LET f == c[1]
  IN (f.op = "cached_path" /\ f.pc \in {"returned", "raised"}
      /\ f.err \notin PipelineErrors) =>
       /\ f.nupd = UpdatesDue(f)
       /\ CacheHitChangesNothing(f)

\* After a day went by, a second call with extract on the cached archive hit
\* the cache: it returned without a download, an extraction or an update.
C18_Witness ==
  /\ prev[1].op = "cached_path" /\ prev[1].pc = "returned" /\ prev[1].ndl = 1
  /\ c[1].op = "cached_path" /\ c[1].pc = "returned" /\ c[1].x
  /\ c[1].id = <<RemoteArchive>> /\ c[1].ndl = 0 /\ c[1].nex = 0
  /\ c[1].nupd = 0 /\ now = 1

\* Caller p takes the step of one '!' level: the level below has returned to
\* it the path of the outer part.
UnwindsNow(p) == c[p].pc = "unwind" /\ c'[p] # c[p]

\* C19: a call on a nested identifier resolves the outer part with
\* extract=True and the force flags it was given, and then, in the step that
\* follows the return of that resolution, only joins: it holds no lock and
\* takes none, changes no record and no file, and the path it hands on is the
\* outer part's path with the normalised inner path appended; so a nested
\* call that returns hands back the extraction directory of its base joined
\* with its normalised inner paths.
C19_NestedIsOuterPlusJoin ==
  [][\A p \in Procs :
       /\ UnwindsNow(p) =>
            /\ c[p].x /\ c'[p].fd = c[p].fd /\ c'[p].fe = c[p].fe
            /\ lock # p /\ lock' = lock /\ store' = store
            /\ c'[p].pc \in {"returned", "unwind"} =>
                 c'[p].res = [c[p].res EXCEPT
                                !.inner = @ \o extract_path(Head(c[p].todo))]
       /\ (ReturnsNow(p) /\ Len(c'[p].id) > 1) =>
            c'[p].res = [extraction_dir(c'[p].url) EXCEPT
                           !.inner = InnerOf(Tail(c'[p].id))]]_vars

\* 'a.zip!/f' returned the file f of the extraction directory: the leading
\* separator of the inner path is gone.
C19_Witness ==
  \E p \in Procs :
    /\ Finished(p) /\ c[p].pc = "returned"
    /\ c[p].id = <<RemoteArchive, <<"", "f">>>>
    /\ c[p].res = [extraction_dir(RemoteArchive) EXCEPT !.inner = <<"f">>]

\* C20: a cached_path call never asks for the lock while it holds it: the
\* resolution of the outer part, however many '!' the identifier has, has
\* released the lock when the enclosing level goes on, and the enclosing
\* levels never enter the critical section; a caller that is at line 85 while
\* no other caller holds the lock can take it, so a caller alone never
\* deadlocks on the lock that is not reentrant.
C20_NoReentrantAcquire ==
  /\ [](\A p \in Procs :
          /\ (c[p].pc \in {"acquire", "unwind"} \/ Free(p)) => lock # p
          /\ (c[p].pc = "acquire" /\ \A q \in Procs \ {p} : lock # q)
               => ENABLED Acquire(p))
  /\ [][\A p \in Procs :
          UnwindsNow(p) =>
            /\ c'[p].pc \in {"unwind", "returned", "raised"}
            /\ lock' = lock]_vars

\* One caller got through the two levels of 'a.zip!d!f' and returned, and
\* after that call another call has taken the lock.
C20_Witness ==
  \E p, q \in Procs :
    /\ Finished(p) /\ c[p].pc = "returned"
    /\ c[p].id = <<RemoteArchive, <<"d">>, <<"f">>>>
    /\ c[p].nex = 1
    /\ c[q].pc = "lookup" /\ lock = q /\ Len(c[q].id) > 1

====
